---- MODULE Spec2Model ----
(***************************************************************************)
(* Model of the thread pool of src/src/lib.rs: ThreadPool::new, run, the   *)
(* Drop implementation and the loop of every Worker thread, with the mpsc  *)
(* channel and the Arc<Mutex<Receiver>> the workers share.                 *)
(***************************************************************************)
EXTENDS Integers, Sequences, FiniteSets

\* Bounds of the model.
MaxSize == 2
MaxJobs == 2
MaxDrops == 2

\* The platform can run MaxSize worker threads: a pool may be asked for one
\* more than that, and the spawn of the worker past the limit fails.
Ids == 0..(MaxSize - 1)
Sizes == 0..(MaxSize + 1)
Jobs == 1..MaxJobs

VARIABLES
    pool,        \* position of the thread that owns the ThreadPool
    size,        \* argument of ThreadPool::new
    workers,     \* ThreadPool.workers: sequence of [id, handle]
    sender,      \* TRUE while the sending endpoint exists
    chan,        \* messages buffered in the mpsc channel, oldest first
    lockHolder,  \* worker holding the Mutex of the receiver, or NoWorker
    poisoned,    \* the Mutex is poisoned
    wpc,         \* position of every worker thread
    wmsg,        \* the Message a worker has received and not yet handled
    dequeued,    \* per job: number of times its message was received
    invoked,     \* per job: number of times job() was called
    completed,   \* per job: number of times job() returned
    nextJob,     \* number of calls of run so far
    runFailed,   \* a send in run returned Err (the unwrap panicked)
    dropIdx,     \* loop index of the two loops of drop
    drops,       \* number of times the body of drop was entered
    joins,       \* per worker: number of join() calls on its thread
    pendingAtDrop,   \* jobs buffered in the channel when drop was entered
    inflightAtDrop   \* jobs held by a worker when drop was entered

vars == <<pool, size, workers, sender, chan, lockHolder, poisoned, wpc, wmsg,
          dequeued, invoked, completed, nextJob, runFailed, dropIdx, drops,
          joins, pendingAtDrop, inflightAtDrop>>

NoWorker == -1

\* enum Message
NewJob(j, f) == [type |-> "NewJob", job |-> j, faulty |-> f]
Terminate == [type |-> "Terminate", job |-> 0, faulty |-> FALSE]
NoMsg == [type |-> "None", job |-> 0, faulty |-> FALSE]

\* A worker thread that has been spawned and has not ended.
Running(i) == wpc[i] \in {"lock", "recv", "got", "run"}
Ended(i) == wpc[i] \in {"exited", "panicked"}

\* Faulty variant of ReceiverAlive: the pool keeps a clone of the Arc for itself.
ReceiverAliveKept == TRUE

\* The Receiver lives as long as one Arc clone of it does: the local of
\* ThreadPool::new, or the clone moved into a worker thread's closure.
ReceiverAlive == pool \in {"new", "constructing"} \/ \E i \in Ids : Running(i)

\* The buffer after worker i's thread ended: the last clone drops the
\* Receiver and every message still buffered with it.
ChanAfterEnd(i) ==
    IF pool \in {"new", "constructing"} \/ \E k \in Ids \ {i} : Running(k)
    THEN chan ELSE <<>>

Init ==
    /\ pool = "new"
    /\ size \in Sizes
    /\ workers = <<>>
    /\ sender = TRUE
    /\ chan = <<>>
    /\ lockHolder = NoWorker
    /\ poisoned = FALSE
    /\ wpc = [i \in Ids |-> "unspawned"]
    /\ wmsg = [i \in Ids |-> NoMsg]
    /\ dequeued = [j \in Jobs |-> 0]
    /\ invoked = [j \in Jobs |-> 0]
    /\ completed = [j \in Jobs |-> 0]
    /\ nextJob = 0
    /\ runFailed = FALSE
    /\ dropIdx = 0
    /\ drops = 0
    /\ joins = [i \in Ids |-> 0]
    /\ pendingAtDrop = {}
    /\ inflightAtDrop = {}

\* Faulty variant of Enqueue: the message goes in front of those waiting.
EnqueueFront(ch, m) == <<m>> \o ch

\* sender.send(m) on a channel whose Receiver exists: m goes behind the
\* messages already buffered
Enqueue(ch, m) == Append(ch, m)

----
\* ThreadPool::new

\* Faulty variant of SizeOk: the assertion admits 0.
SizeOkZero(n) == n >= 0

\* assert!(size > 0)
SizeOk(n) == n > 0

NewAssert ==
    /\ pool = "new"
    /\ IF SizeOk(size)
       THEN pool' = "constructing" /\ sender' = sender
       ELSE pool' = "new_panicked" /\ sender' = FALSE
    /\ UNCHANGED <<size, workers, chan, lockHolder, poisoned, wpc, wmsg,
                   dequeued, invoked, completed, nextJob, runFailed, dropIdx,
                   drops, joins, pendingAtDrop, inflightAtDrop>>

\* for i in 0..size: the loop goes on while fewer than size workers exist
SpawnMore == Len(workers) < size

\* The platform can still create a thread.
CanSpawn == Len(workers) \in Ids

\* workers.push(Worker::new(i, Arc::clone(&receiver))), the spawn succeeding
Spawn ==
    /\ pool = "constructing"
    /\ SpawnMore
    /\ CanSpawn
    /\ LET i == Len(workers) IN
         /\ workers' = Append(workers, [id |-> i, handle |-> TRUE])
         /\ wpc' = [wpc EXCEPT ![i] = "lock"]
    /\ UNCHANGED <<pool, size, sender, chan, lockHolder, poisoned, wmsg,
                   dequeued, invoked, completed, nextJob, runFailed, dropIdx,
                   drops, joins, pendingAtDrop, inflightAtDrop>>

\* Faulty variant of AfterSpawnFail: the failure is swallowed and the pool
\* is returned with the workers spawned so far.
AfterSpawnFailPartial == "live"

\* Where ThreadPool::new ends when thread::spawn fails: the panic of spawn
\* is not caught
AfterSpawnFail == "new_panicked"

\* Faulty variant of SenderAfterSpawnFail: the sending endpoint outlives the
\* failed constructor.
SenderAfterSpawnFailKept == TRUE

\* Whether the sending endpoint exists after the unwinding of new: `sender`
\* is a local of new
SenderAfterSpawnFail == FALSE

\* thread::spawn panics: new unwinds, dropping the workers pushed so far (their
\* threads are detached), the sender and the constructor's Arc of the receiver
SpawnFail ==
    /\ pool = "constructing"
    /\ SpawnMore
    /\ pool' = AfterSpawnFail
    /\ sender' = SenderAfterSpawnFail
    /\ workers' = <<>>
    /\ chan' = IF \E k \in Ids : Running(k) THEN chan ELSE <<>>
    /\ UNCHANGED <<size, lockHolder, poisoned, wpc, wmsg,
                   dequeued, invoked, completed, nextJob, runFailed, dropIdx,
                   drops, joins, pendingAtDrop, inflightAtDrop>>

\* return ThreadPool { workers, sender }
NewReturn ==
    /\ pool = "constructing"
    /\ ~SpawnMore
    /\ pool' = "live"
    /\ UNCHANGED <<size, workers, sender, chan, lockHolder, poisoned, wpc,
                   wmsg, dequeued, invoked, completed, nextJob, runFailed,
                   dropIdx, drops, joins, pendingAtDrop, inflightAtDrop>>

----
\* ThreadPool::run with a job that faults (f) or not. The channel serializes
\* the sends of all the threads that share the pool: every step is the send
\* of one of them.

Run(f) ==
    /\ pool = "live"
    /\ nextJob < MaxJobs
    /\ nextJob' = nextJob + 1
    /\ IF ReceiverAlive
       THEN chan' = Enqueue(chan, NewJob(nextJob + 1, f))
            /\ runFailed' = runFailed
       ELSE chan' = chan /\ runFailed' = TRUE
    /\ UNCHANGED <<pool, size, workers, sender, lockHolder, poisoned, wpc,
                   wmsg, dequeued, invoked, completed, dropIdx, drops, joins,
                   pendingAtDrop, inflightAtDrop>>

----
\* The loop of worker i (the closure of Worker::new)

\* receiver.lock().unwrap(): a poisoned Mutex makes the unwrap panic
Lock(i) ==
    /\ wpc[i] = "lock"
    /\ IF poisoned
       THEN /\ wpc' = [wpc EXCEPT ![i] = "panicked"]
            /\ chan' = ChanAfterEnd(i)
            /\ lockHolder' = lockHolder
       ELSE /\ lockHolder = NoWorker
            /\ lockHolder' = i
            /\ wpc' = [wpc EXCEPT ![i] = "recv"]
            /\ chan' = chan
    /\ UNCHANGED <<pool, size, workers, sender, poisoned, wmsg, dequeued,
                   invoked, completed, nextJob, runFailed, dropIdx, drops,
                   joins, pendingAtDrop, inflightAtDrop>>

\* Faulty variant of RecvRest: the message received stays in the buffer.
RecvRestPeek(ch) == ch

\* What recv() leaves in the buffer
RecvRest(ch) == Tail(ch)

\* Faulty variant of HolderAfterRecv: the guard lives on after the
\* statement, into the match that runs the job.
HolderAfterRecvKept(i) == i

\* Who holds the Mutex once `let job = receiver.lock().unwrap().recv().unwrap();`
\* is over: the guard is a temporary of that statement
HolderAfterRecv(i) == NoWorker

\* .recv().unwrap() under the guard; the guard is released at the end of the
\* statement. With an empty buffer recv blocks while a sender exists and
\* returns Err once none does: the unwrap panics under the guard, which
\* poisons the Mutex.
Recv(i) ==
    /\ wpc[i] = "recv"
    /\ lockHolder = i
    /\ IF chan # <<>>
       THEN /\ wmsg' = [wmsg EXCEPT ![i] = Head(chan)]
            /\ chan' = RecvRest(chan)
            /\ dequeued' = IF Head(chan).type = "NewJob"
                           THEN [dequeued EXCEPT ![Head(chan).job] = @ + 1]
                           ELSE dequeued
            /\ wpc' = [wpc EXCEPT ![i] = "got"]
            /\ poisoned' = poisoned
       ELSE /\ ~sender
            /\ wpc' = [wpc EXCEPT ![i] = "panicked"]
            /\ poisoned' = TRUE
            /\ chan' = ChanAfterEnd(i)
            /\ UNCHANGED <<wmsg, dequeued>>
    /\ lockHolder' = IF chan # <<>> THEN HolderAfterRecv(i) ELSE NoWorker
    /\ UNCHANGED <<pool, size, workers, sender, invoked, completed, nextJob,
                   runFailed, dropIdx, drops, joins, pendingAtDrop,
                   inflightAtDrop>>

\* match job { NewJob(job) => job() begins
StartJob(i) ==
    /\ wpc[i] = "got"
    /\ wmsg[i].type = "NewJob"
    /\ invoked' = [invoked EXCEPT ![wmsg[i].job] = @ + 1]
    /\ wpc' = [wpc EXCEPT ![i] = "run"]
    /\ UNCHANGED <<pool, size, workers, sender, chan, lockHolder, poisoned,
                   wmsg, dequeued, completed, nextJob, runFailed, dropIdx,
                   drops, joins, pendingAtDrop, inflightAtDrop>>

\* Faulty variant of AfterJob: the loop is left after one job.
AfterJobBreak == "exited"

\* Where the loop goes after job() returned
AfterJob == "lock"

\* job() returns and the loop starts over, or job() panics and the thread
\* ends; the unwinding of a panic releases a guard the thread holds and
\* poisons its Mutex
EndJob(i) ==
    /\ wpc[i] = "run"
    /\ IF wmsg[i].faulty
       THEN /\ wpc' = [wpc EXCEPT ![i] = "panicked"]
            /\ chan' = ChanAfterEnd(i)
            /\ poisoned' = (poisoned \/ lockHolder = i)
            /\ lockHolder' = IF lockHolder = i THEN NoWorker ELSE lockHolder
            /\ UNCHANGED <<completed, wmsg>>
       ELSE /\ completed' = [completed EXCEPT ![wmsg[i].job] = @ + 1]
            /\ wpc' = [wpc EXCEPT ![i] = AfterJob]
            /\ wmsg' = IF AfterJob = "lock"
                       THEN [wmsg EXCEPT ![i] = NoMsg] ELSE wmsg
            /\ chan' = chan
            /\ UNCHANGED <<lockHolder, poisoned>>
    /\ UNCHANGED <<pool, size, workers, sender,
                   dequeued, invoked, nextJob, runFailed, dropIdx, drops,
                   joins, pendingAtDrop, inflightAtDrop>>

\* Message::Terminate => break
OnTerminate(i) ==
    /\ wpc[i] = "got"
    /\ wmsg[i].type = "Terminate"
    /\ wpc' = [wpc EXCEPT ![i] = "exited"]
    /\ wmsg' = [wmsg EXCEPT ![i] = NoMsg]
    /\ chan' = ChanAfterEnd(i)
    /\ UNCHANGED <<pool, size, workers, sender, lockHolder, poisoned,
                   dequeued, invoked, completed, nextJob, runFailed, dropIdx,
                   drops, joins, pendingAtDrop, inflightAtDrop>>

Worker(i) == Lock(i) \/ Recv(i) \/ StartJob(i) \/ EndJob(i) \/ OnTerminate(i)

----
\* impl Drop for ThreadPool

JobsIn(ch) == {ch[k].job : k \in {x \in 1..Len(ch) : ch[x].type = "NewJob"}}

\* The owner relinquishes the pool: the body of drop is entered
DropStart ==
    /\ pool = "live"
    /\ pool' = "drop_send"
    /\ dropIdx' = 0
    /\ drops' = drops + 1
    /\ pendingAtDrop' = JobsIn(chan)
    /\ inflightAtDrop' = {wmsg[i].job : i \in {k \in Ids : wpc[k] \in {"got", "run"}
                                                   /\ wmsg[k].type = "NewJob"}}
    /\ UNCHANGED <<size, workers, sender, chan, lockHolder, poisoned, wpc,
                   wmsg, dequeued, invoked, completed, nextJob, runFailed,
                   joins>>

\* Faulty variant of TerminatesToSend: one Terminate too few.
TerminatesOneShort == Len(workers) - 1

\* for _ in &mut self.workers.iter(): one Terminate per element of workers
TerminatesToSend == Len(workers)

\* self.sender.send(Message::Terminate).unwrap(); the panic of the unwrap
\* unwinds out of drop and releases the fields of the pool
DropSend ==
    /\ pool = "drop_send"
    /\ dropIdx < TerminatesToSend
    /\ IF ReceiverAlive
       THEN /\ chan' = Enqueue(chan, Terminate)
            /\ dropIdx' = dropIdx + 1
            /\ UNCHANGED <<pool, sender, workers>>
       ELSE /\ pool' = "drop_panicked"
            /\ sender' = FALSE
            /\ workers' = <<>>
            /\ UNCHANGED <<chan, dropIdx>>
    /\ UNCHANGED <<size, lockHolder, poisoned, wpc, wmsg, dequeued, invoked,
                   completed, nextJob, runFailed, drops, joins, pendingAtDrop,
                   inflightAtDrop>>

\* the first loop is over, the second begins
DropSendDone ==
    /\ pool = "drop_send"
    /\ dropIdx >= TerminatesToSend
    /\ pool' = "drop_join"
    /\ dropIdx' = 0
    /\ UNCHANGED <<size, workers, sender, chan, lockHolder, poisoned, wpc,
                   wmsg, dequeued, invoked, completed, nextJob, runFailed,
                   drops, joins, pendingAtDrop, inflightAtDrop>>

\* Faulty variant of JoinLoopDone: the last worker is left out.
JoinLoopDoneEarly == dropIdx >= Len(workers) - 1

\* for worker in &mut self.workers: the loop is over
JoinLoopDone == dropIdx >= Len(workers)

\* Faulty variant of TakenSlot: the handle is left in its slot.
TakenSlotKept == TRUE

\* What worker.handle.take() leaves in the slot
TakenSlot == FALSE

\* if let Some(handle) = worker.handle.take(): an empty slot is skipped
DropTake ==
    /\ pool = "drop_join"
    /\ ~JoinLoopDone
    /\ IF workers[dropIdx + 1].handle
       THEN /\ workers' = [workers EXCEPT ![dropIdx + 1].handle = TakenSlot]
            /\ pool' = "joining"
            /\ dropIdx' = dropIdx
       ELSE /\ dropIdx' = dropIdx + 1
            /\ UNCHANGED <<workers, pool>>
    /\ UNCHANGED <<size, sender, chan, lockHolder, poisoned, wpc, wmsg,
                   dequeued, invoked, completed, nextJob, runFailed, drops,
                   joins, pendingAtDrop, inflightAtDrop>>

\* Faulty variant of JoinReady: the thread is not waited for.
JoinNoWait(id) == TRUE

\* join() returns once the thread has ended
JoinReady(id) == Ended(id)

\* Faulty variant of JoinErr: the result of join is not looked at.
JoinErrIgnored(id) == FALSE

\* join() returns Err when the thread ended by a panic
JoinErr(id) == wpc[id] = "panicked"

\* handle.join().unwrap(): Err, and a panic of the unwrap, when the thread
\* panicked
DropJoin ==
    /\ pool = "joining"
    /\ LET id == workers[dropIdx + 1].id IN
         /\ JoinReady(id)
         /\ joins' = [joins EXCEPT ![id] = @ + 1]
         /\ IF JoinErr(id)
            THEN /\ pool' = "drop_panicked"
                 /\ sender' = FALSE
                 /\ workers' = <<>>
                 /\ dropIdx' = dropIdx
            ELSE /\ pool' = "drop_join"
                 /\ dropIdx' = dropIdx + 1
                 /\ UNCHANGED <<sender, workers>>
    /\ UNCHANGED <<size, chan, lockHolder, poisoned, wpc, wmsg, dequeued,
                   invoked, completed, nextJob, runFailed, drops,
                   pendingAtDrop, inflightAtDrop>>

\* the body of drop returns
DropReturn ==
    /\ pool = "drop_join"
    /\ JoinLoopDone
    /\ pool' = "returned"
    /\ UNCHANGED <<size, workers, sender, chan, lockHolder, poisoned, wpc,
                   wmsg, dequeued, invoked, completed, nextJob, runFailed,
                   dropIdx, drops, joins, pendingAtDrop, inflightAtDrop>>

\* after the body of drop the fields of the pool are released
FieldsDrop ==
    /\ pool = "returned"
    /\ pool' = "gone"
    /\ sender' = FALSE
    /\ workers' = <<>>
    /\ UNCHANGED <<size, chan, lockHolder, poisoned, wpc, wmsg, dequeued,
                   invoked, completed, nextJob, runFailed, dropIdx, drops,
                   joins, pendingAtDrop, inflightAtDrop>>

\* the body of drop is run once more on the pool it has already torn down
SecondDrop ==
    /\ pool = "returned"
    /\ drops < MaxDrops
    /\ pool' = "drop_send"
    /\ dropIdx' = 0
    /\ drops' = drops + 1
    /\ UNCHANGED <<size, workers, sender, chan, lockHolder, poisoned, wpc,
                   wmsg, dequeued, invoked, completed, nextJob, runFailed,
                   joins, pendingAtDrop, inflightAtDrop>>

----
Next ==
    \/ NewAssert
    \/ Spawn
    \/ SpawnFail
    \/ NewReturn
    \/ \E f \in BOOLEAN : Run(f)
    \/ \E i \in Ids : Lock(i)
    \/ \E i \in Ids : Recv(i)
    \/ \E i \in Ids : StartJob(i)
    \/ \E i \in Ids : EndJob(i)
    \/ \E i \in Ids : OnTerminate(i)
    \/ DropStart
    \/ DropSend
    \/ DropSendDone
    \/ DropTake
    \/ DropJoin
    \/ DropReturn
    \/ FieldsDrop
    \/ SecondDrop

Spec == Init /\ [][Next]_vars

\* Every thread that can take a step eventually takes one: the worker
\* threads, and the thread running the body of drop.
DropStep == DropSend \/ DropSendDone \/ DropTake \/ DropJoin \/ DropReturn

Fairness ==
    /\ \A i \in Ids : WF_vars(Worker(i))
    /\ WF_vars(DropStep)

FairSpec == Init /\ [][Next]_vars /\ Fairness

TypeOK ==
    /\ pool \in {"new", "constructing", "new_panicked", "live", "drop_send",
                 "drop_join", "joining", "returned", "gone", "drop_panicked"}
    /\ size \in Sizes
    /\ Len(workers) <= MaxSize
    /\ sender \in BOOLEAN
    /\ lockHolder \in Ids \cup {NoWorker}
    /\ poisoned \in BOOLEAN
    /\ wpc \in [Ids -> {"unspawned", "lock", "recv", "got", "run", "exited",
                        "panicked"}]
    /\ nextJob \in 0..MaxJobs
    /\ drops \in 0..MaxDrops

----
\* Properties

\* The body of drop has returned normally.
TornDown == pool \in {"returned", "gone"}

\* The jobs handed to run so far.
Submitted == 1..nextJob

\* The worker threads of the pool.
Spawned == 0..(size - 1)

\* C1: no job is received by more than one worker, and no job is invoked
\* more than once, whatever the interleaving of the submitting threads and
\* of the workers.
C1_NoDoubleExecution ==
    \A j \in Jobs : dequeued[j] <= 1 /\ invoked[j] <= 1

\* Two workers run two jobs at the same time, each invoked once.
C1_Witness ==
    \E i, k \in Ids :
        /\ i # k
        /\ wpc[i] = "run" /\ wpc[k] = "run"
        /\ wmsg[i].job # wmsg[k].job
        /\ invoked[wmsg[i].job] = 1 /\ invoked[wmsg[k].job] = 1

\* C2: when no worker died of a faulting job and every submitted job had been
\* dequeued before teardown was triggered, then once teardown has returned
\* every submitted job has been received once, invoked once and has returned.
C2_Delivery ==
    (/\ TornDown
     /\ pendingAtDrop = {}
     /\ \A i \in Ids : wpc[i] # "panicked")
    => \A j \in Submitted :
           dequeued[j] = 1 /\ invoked[j] = 1 /\ completed[j] = 1

\* Teardown has returned for a pool whose two jobs were both dequeued before
\* teardown began, one of them still held by a worker at that moment.
C2_Witness ==
    /\ pool = "returned"
    /\ nextJob >= 2
    /\ pendingAtDrop = {}
    /\ inflightAtDrop # {}
    /\ \A j \in Submitted : completed[j] = 1

\* C3: when the pool is discarded before any of its k submitted jobs has
\* been dequeued, the number of completed jobs is k once teardown has
\* returned.
C3_DiscardAfterSubmit ==
    (TornDown /\ pendingAtDrop = Submitted)
    => Cardinality({j \in Jobs : completed[j] = 1}) = nextJob

\* Teardown has returned for a pool of two workers discarded with two or more
\* jobs all still in the channel.
C3_Witness ==
    /\ pool = "returned"
    /\ size >= 2
    /\ nextJob >= 2
    /\ pendingAtDrop = Submitted
    /\ Cardinality({j \in Jobs : completed[j] = 1}) = nextJob

\* C4 as stated: a job still in the channel when teardown is triggered is
\* abandoned, it has never executed when teardown has returned.
C4_PendingAbandoned ==
    TornDown => \A j \in pendingAtDrop : invoked[j] = 0

\* C4, amended: teardown waits for the jobs still in the channel when it is
\* triggered; once it has returned every one of them has been dequeued
\* and has run to completion, and none is left in the channel.
C4_PendingJobsRun ==
    TornDown =>
        /\ \A j \in pendingAtDrop : dequeued[j] = 1 /\ completed[j] = 1
        /\ JobsIn(chan) = {}

\* Teardown has returned for a pool discarded with one job in the channel
\* and another in a worker's hands.
C4_Witness ==
    /\ pool = "returned"
    /\ pendingAtDrop # {}
    /\ inflightAtDrop # {}
    /\ \A j \in pendingAtDrop : completed[j] = 1

\* C5: whenever teardown has returned, every worker thread of the pool has
\* ended; none is running a job, waiting for the lock or waiting in recv.
C5_CleanShutdown ==
    TornDown => \A i \in Spawned : Ended(i)

\* Teardown has returned for a pool of two workers that ran a job.
C5_Witness ==
    /\ pool = "returned"
    /\ size >= 2
    /\ nextJob >= 1
    /\ \A i \in Spawned : wpc[i] = "exited"

\* The pool is being discarded for the first time with an empty channel and
\* every one of its workers idle (waiting for the lock, or in recv), and no
\* Terminate has been sent yet.
IdleDiscard ==
    /\ pool = "drop_send"
    /\ drops = 1
    /\ dropIdx = 0
    /\ chan = <<>>
    /\ \A i \in Spawned : wpc[i] \in {"lock", "recv"}

\* C6: under fair scheduling, discarding a pool with no pending job and all
\* workers idle leads to teardown returning with every worker having left
\* its loop on a Terminate.
C6_IdleShutdownTerminates ==
    IdleDiscard ~> (pool = "returned" /\ \A i \in Spawned : wpc[i] = "exited")

\* Teardown has returned for a pool of two workers discarded with nothing in
\* the channel and nothing in a worker's hands.
C6_Witness ==
    /\ pool = "returned"
    /\ size >= 2
    /\ pendingAtDrop = {}
    /\ inflightAtDrop = {}
    /\ \A i \in Spawned : wpc[i] = "exited" /\ joins[i] = 1

\* C7 as stated: the send of run never fails while the pool is alive.
C7_RunSendNeverFails ==
    ~runFailed

\* C8 as stated: a second run of the teardown steps raises no error, joins
\* no thread a second time and changes nothing.
C8_SecondTeardownNoOp ==
    drops >= 2 => (pool # "drop_panicked" /\ \A i \in Ids : joins[i] <= 1)

\* C8, amended: a second run of the teardown steps joins no thread a second
\* time, but it is not a no-op: every worker has exited, the receiving
\* endpoint is gone, and the first send of Terminate fails fatally before
\* anything is enqueued or joined.
C8_SecondTeardownFails ==
    /\ \A i \in Ids : joins[i] <= 1
    /\ drops >= 2 =>
          /\ pool \in {"drop_send", "drop_panicked"}
          /\ dropIdx = 0
          /\ chan = <<>>
          /\ \A i \in Spawned : wpc[i] = "exited" /\ joins[i] = 1

\* The second run of the teardown steps has ended in the fatal send failure.
C8_Witness ==
    /\ drops = 2
    /\ pool = "drop_panicked"
    /\ \A i \in Spawned : joins[i] = 1

\* C9: a job that a worker held when teardown was triggered has run to
\* completion once teardown has returned; and for a pool of one worker and
\* one submitted job, the job has completed once teardown has returned.
C9_WaitsForInflight ==
    TornDown =>
        /\ \A j \in inflightAtDrop : invoked[j] = 1 /\ completed[j] = 1
        /\ (size = 1 /\ nextJob = 1) => completed[1] = 1

\* Teardown has returned for a pool of one worker that held its one job when
\* teardown was triggered.
C9_Witness ==
    /\ pool = "returned"
    /\ size = 1
    /\ nextJob = 1
    /\ inflightAtDrop = {1}
    /\ completed[1] = 1

\* The states in which the pool object exists.
PoolLife == {"live", "drop_send", "drop_join", "joining", "returned"}

\* C10: new(0) fails without spawning a worker; new(n), n >= 1, returns a
\* pool of n workers with indices 0..n-1 whose n threads are alive, and the
\* pool owns n workers in every state of its life.
C10_NewContract ==
    /\ size = 0 =>
          /\ pool \in {"new", "new_panicked"}
          /\ workers = <<>>
          /\ \A i \in Ids : wpc[i] = "unspawned"
    /\ pool \in PoolLife =>
          /\ size >= 1
          /\ Len(workers) = size
          /\ \A k \in 1..Len(workers) : workers[k].id = k - 1
          /\ \A i \in Ids : (wpc[i] # "unspawned") <=> (i \in Spawned)
    /\ (pool = "live" /\ nextJob = 0) => \A i \in Spawned : Running(i)

\* A live pool of two workers after a submission.
C10_Witness ==
    /\ pool = "live"
    /\ size >= 2
    /\ nextJob >= 1
    /\ Len(workers) = size

\* The worker threads that were spawned.
Threads == {i \in Ids : wpc[i] # "unspawned"}

\* C11: when fewer than size worker threads could be spawned, the
\* constructor has not returned a pool, and it never does: the failure of a
\* spawn leaves it in its fatal end for good.
C11_SpawnFailureFatal ==
    /\ Cardinality(Threads) < size =>
           pool \in {"new", "constructing", "new_panicked"}
    /\ pool = "new_panicked" => workers = <<>> /\ ~sender /\ nextJob = 0

\* The constructor of a pool of two or more workers has failed at the spawn
\* of a worker after the first.
C11_Witness ==
    /\ pool = "new_panicked"
    /\ size >= 2
    /\ Cardinality(Threads) >= 1
    /\ Cardinality(Threads) < size

\* C12 as stated: in every state of a live pool a call of run returns after
\* enqueueing exactly one NewJob message, whatever the depth of the queue and
\* whatever the workers are doing.
C12_RunEnqueuesOne ==
    [][(\E f \in BOOLEAN : Run(f)) =>
           /\ Len(chan') = Len(chan) + 1
           /\ chan'[Len(chan')].type = "NewJob"
           /\ chan'[Len(chan')].job = nextJob']_vars

\* The workers that died of a faulting job: they ended by a panic with the
\* faulting job in their hands.
Faulted == {i \in Ids : wpc[i] = "panicked" /\ wmsg[i].faulty}

\* The body of drop is running.
TearingDown == pool \in {"drop_send", "drop_join", "joining"}

\* C13: teardown never returns normally once a worker has died of a faulting
\* job, and under fair scheduling a teardown running with such a worker ends
\* in the fatal error.
C13_JoinFailureFatal ==
    /\ [](TornDown => Faulted = {})
    /\ (TearingDown /\ Faulted # {}) ~> (pool = "drop_panicked")

\* The first teardown of a pool of two workers ended in the fatal error of
\* a join: one worker died of a faulting job, the other was joined.
C13_Witness ==
    /\ pool = "drop_panicked"
    /\ drops = 1
    /\ Faulted # {}
    /\ \E i \in Ids : wpc[i] = "exited" /\ joins[i] = 1
    /\ \E i \in Faulted : joins[i] = 1

\* C14: a worker holds the lock of the receiving endpoint exactly while it
\* is in its receive call; a worker that has a message in its hands or is
\* running a job does not hold it, and no two workers are in the receive
\* call at the same time.
C14_LockOnlyDuringRecv ==
    /\ \A i \in Ids : (lockHolder = i) <=> (wpc[i] = "recv")
    /\ \A i, k \in Ids : (wpc[i] = "recv" /\ wpc[k] = "recv") => i = k

\* While one worker runs a job, another holds the lock and is about to
\* dequeue the next job.
C14_Witness ==
    \E i, k \in Ids :
        /\ wpc[i] = "run"
        /\ wpc[k] = "recv"
        /\ lockHolder = k
        /\ chan # <<>>
        /\ Head(chan).type = "NewJob"

\* The Terminate messages that exist or were consumed: those in the channel,
\* those in a worker's hands, and one for every worker that left its loop.
TermsAround ==
    Cardinality({k \in 1..Len(chan) : chan[k].type = "Terminate"})
    + Cardinality({i \in Ids : wmsg[i].type = "Terminate"})
    + Cardinality({i \in Ids : wpc[i] = "exited"})

\* C15: in a teardown with no worker dead of a panic, the Terminates sent so
\* far are as many as the iterations of the first loop, size in all once it
\* is over, each consumed by at most one worker; when teardown has returned
\* every worker has consumed one and none is left; and a worker that has
\* left its loop stays out of it.
C15_OneTerminatePerWorker ==
    /\ []((drops = 1 /\ \A i \in Ids : wpc[i] # "panicked") =>
            /\ pool = "drop_send" => TermsAround = dropIdx
            /\ pool \in {"drop_join", "joining", "returned", "gone"} =>
                   TermsAround = size
            /\ TornDown => (chan = <<>> /\ \A i \in Spawned : wpc[i] = "exited"))
    /\ [][\A i \in Ids : wpc[i] = "exited" =>
              (wpc'[i] = "exited" /\ wmsg'[i] = NoMsg)]_vars

\* During the joins of a pool that ran a job, one worker has left its loop
\* and the other has its Terminate in its hands.
C15_Witness ==
    /\ pool = "joining"
    /\ drops = 1
    /\ nextJob >= 1
    /\ \A i \in Ids : wpc[i] # "panicked"
    /\ \E i, k \in Ids :
          wpc[i] = "exited" /\ wpc[k] = "got" /\ wmsg[k].type = "Terminate"

\* The workers joined so far in the first teardown are those at positions
\* 1..n of the pool, once each, and the handles taken are those at 1..m.
JoinedUpTo(n, m) ==
    \A k \in 1..Len(workers) :
        /\ joins[workers[k].id] = (IF k <= n THEN 1 ELSE 0)
        /\ workers[k].handle <=> (k > m)

\* C16: in the first teardown no handle is taken and no thread joined while
\* Terminates are being sent; the sending is left for the joins only after
\* size iterations; the joins go through the workers in index order, the
\* handle of a worker being taken when its join begins; only the join step
\* joins, and no worker is ever joined twice.
C16_PhaseOrdering ==
    /\ [](drops = 1 =>
            /\ pool = "drop_send" => JoinedUpTo(0, 0)
            /\ pool = "drop_join" => JoinedUpTo(dropIdx, dropIdx)
            /\ pool = "joining" => JoinedUpTo(dropIdx, dropIdx + 1))
    /\ [](\A i \in Ids : joins[i] <= 1)
    /\ [][(pool = "drop_send" /\ pool' = "drop_join") =>
              (dropIdx = size /\ Len(workers) = size)]_vars
    /\ [][joins' # joins => (pool = "joining" /\ ~workers[dropIdx + 1].handle)]_vars

\* The second worker of a pool is being joined after the first was: its
\* handle is taken, the first worker has been joined once.
C16_Witness ==
    /\ pool = "joining"
    /\ drops = 1
    /\ dropIdx = 1
    /\ joins[0] = 1
    /\ joins[1] = 0
    /\ ~workers[1].handle /\ ~workers[2].handle

\* The worker threads that have not ended.
Live == {i \in Ids : Running(i)}

\* C17: the step in which a job faults ends the thread of the worker running
\* it and touches nothing else: every other worker stays where it is, the
\* lock is neither taken nor poisoned, and the channel keeps its messages
\* while another worker lives. A thread that has ended never runs again, and
\* once the pool is constructed the set of live workers only shrinks.
C17_FaultKillsOneWorker ==
    [][/\ \A i \in Ids :
              (wpc[i] = "run" /\ wmsg[i].faulty /\ wpc'[i] # "run") =>
                  /\ wpc'[i] = "panicked"
                  /\ \A k \in Ids \ {i} : wpc'[k] = wpc[k]
                  /\ Live' = Live \ {i}
                  /\ poisoned' = poisoned
                  /\ lockHolder' = lockHolder
                  /\ (Live' # {}) => chan' = chan
       /\ \A i \in Ids : Ended(i) => wpc'[i] = wpc[i]
       /\ pool \notin {"new", "constructing"} => Live' \subseteq Live]_vars

\* In a live pool one worker has died of a faulting job and another runs a
\* job submitted after that one, the lock not being poisoned.
C17_Witness ==
    /\ pool = "live"
    /\ ~poisoned
    /\ \E i \in Faulted, k \in Ids :
          /\ wpc[k] = "run"
          /\ wmsg[k].job > wmsg[i].job
          /\ invoked[wmsg[k].job] = 1

\* Some worker has dequeued a Terminate.
TerminateDequeued ==
    \E i \in Ids : wmsg[i].type = "Terminate" \/ wpc[i] = "exited"

\* C18: messages are dequeued in the order of their sends: the channel holds
\* the jobs in the order of their submission with the Terminates behind
\* them, a job is dequeued only after every job submitted before it, and a
\* Terminate only after every job submitted to the pool.
C18_ChannelOrder ==
    /\ \A a, b \in 1..Len(chan) :
           a < b =>
               /\ chan[a].type = "Terminate" => chan[b].type = "Terminate"
               /\ chan[b].type = "NewJob" => chan[a].job < chan[b].job
    /\ \A j \in JobsIn(chan) : dequeued[j] = 0
    /\ \A j1, j2 \in Jobs :
           (j1 < j2 /\ dequeued[j2] >= 1) => dequeued[j1] >= 1
    /\ TerminateDequeued =>
           (JobsIn(chan) = {} /\ \A j \in Submitted : dequeued[j] = 1)

\* The second job has completed while the first, dequeued before it, is
\* still running, and a Terminate has been dequeued behind them.
C18_Witness ==
    /\ nextJob >= 2
    /\ completed[2] = 1
    /\ completed[1] = 0
    /\ \E i \in Ids : wpc[i] = "run" /\ wmsg[i].job = 1
    /\ TerminateDequeued

\* The constructor has returned a pool.
Constructed == pool \notin {"new", "constructing", "new_panicked"}

\* C19: in a pool that was constructed the receive step of a worker never
\* fails: the lock is never poisoned, a worker waiting in recv after the
\* sending endpoint was dropped always finds a message, and the only workers
\* that ended by a panic are those that died of a faulting job.
C19_ReceiveNeverFails ==
    Constructed =>
        /\ ~poisoned
        /\ \A i \in Ids : (wpc[i] = "recv" /\ ~sender) => chan # <<>>
        /\ \A i \in Ids : wpc[i] = "panicked" => i \in Faulted

\* Teardown has failed on the join of a worker dead of a faulting job and
\* the sending endpoint is dropped, while another worker waits in recv with
\* its Terminate in the channel.
C19_Witness ==
    /\ pool = "drop_panicked"
    /\ ~sender
    /\ Faulted # {}
    /\ \E k \in Ids : wpc[k] = "recv" /\ lockHolder = k
    /\ chan # <<>>

\* C20: after a failed construction no spawned worker ever gets a message:
\* the channel is empty and disconnected, a worker ends only by a panic, and
\* the lock is poisoned as soon as one has ended (the first ends in recv
\* under the lock, the others on the poisoned lock); under fair scheduling
\* every spawned worker thread has eventually ended.
C20_NoLeakOnFailedNew ==
    /\ [](pool = "new_panicked" =>
            /\ chan = <<>>
            /\ \A i \in Ids : wpc[i] \in {"unspawned", "lock", "recv", "panicked"}
            /\ poisoned <=> (\E i \in Ids : wpc[i] = "panicked")
            /\ poisoned => lockHolder = NoWorker)
    /\ (pool = "new_panicked") ~> (Live = {})

\* The constructor failed after spawning two workers; both have ended, the
\* lock is poisoned.
C20_Witness ==
    /\ pool = "new_panicked"
    /\ poisoned
    /\ Cardinality({i \in Ids : wpc[i] = "panicked"}) >= 2
    /\ Live = {}

====
